---- MODULE Spec2Model ----
(***************************************************************************)
(* ansi-escapes (src/src/lib.rs): every escape code is a value whose       *)
(* Display::fmt writes its bytes into a caller-supplied fmt::Formatter.    *)
(*                                                                         *)
(* A render is modelled as a small call stack of fmt frames.  A write!     *)
(* hands the sink one piece at a time (a literal of the format string, or  *)
(* the text of one argument); the sink accepts or rejects each piece.      *)
(* Bytes are one-character strings; "ESC" is 0x1B and "BEL" is 0x07.       *)
(***************************************************************************)
EXTENDS Integers, Sequences, FiniteSets, TLC

VARIABLES
    overflowChecks, \* the build: TRUE = overflow-checks on (debug), FALSE = wrapping (release)
    code,           \* code[t]: the value thread t renders (immutable)
    stack,          \* stack[t]: the fmt frames of t's render, innermost last
    pending,        \* pending[t]: pieces of the running write! not yet handed to the sink
    sink,           \* sink[t]: what t's sink has accepted so far
    ret,            \* ret[t]: the fmt::Result the last returned callee gave its caller
    result,         \* result[t]: "Running", or how the render ended: "Ok", "Err", "Panic"
    writes,         \* writes[t]: write attempts made on t's sink
    rejected,       \* rejected[t]: t's sink has rejected a write
    outputs         \* outputs[t]: the outputs of t's earlier, completed renders of code[t]

vars == <<overflowChecks, code, stack, pending, sink, ret, result, writes, rejected, outputs>>

(***************************************************************************)
(* Bounds of the model and constants of the program.                       *)
(***************************************************************************)
U16Max == 65535
I16Max == 32767
I16Min == -32768
CursorLeftReach == 1000

Near == 1
MaxLines == 3
MaxRenders == 2
NumThreads == 2
TermRows == 4
ExtraCols == 2

(***************************************************************************)
(* The code values.                                                        *)
(***************************************************************************)
EscapeCodeNames ==
    {"CursorLeft", "CursorSavePosition", "CursorRestorePosition", "CursorGetPosition",
     "CursorNextLine", "CursorPrevLine", "CursorHide", "CursorShow",
     "EraseEndLine", "EraseStartLine", "EraseLine", "EraseDown", "EraseUp", "EraseScreen",
     "ScrollUp", "ScrollDown", "ClearScreen", "EnterAlternativeScreen",
     "ExitAlternativeScreen", "Beep"}

Mk(k, x, y) == [kind |-> k, a |-> x, b |-> y]

EscapeCode(name) == Mk(name, 0, 0)
CursorUp(n) == Mk("CursorUp", n, 0)
CursorDown(n) == Mk("CursorDown", n, 0)
CursorForward(n) == Mk("CursorForward", n, 0)
CursorBackward(n) == Mk("CursorBackward", n, 0)
CursorTo_TopLeft == Mk("CursorTo::TopLeft", 0, 0)
CursorTo_AbsoluteX(x) == Mk("CursorTo::AbsoluteX", x, 0)
CursorTo_AbsoluteXY(x, y) == Mk("CursorTo::AbsoluteXY", x, y)
CursorMove_X(x) == Mk("CursorMove::X", x, 0)
CursorMove_XY(x, y) == Mk("CursorMove::XY", x, y)
CursorMove_Y(y) == Mk("CursorMove::Y", y, 0)
EraseLines(n) == Mk("EraseLines", n, 0)

CursorToKinds == {"CursorTo::TopLeft", "CursorTo::AbsoluteX", "CursorTo::AbsoluteXY"}
CursorMoveKinds == {"CursorMove::X", "CursorMove::XY", "CursorMove::Y"}

\* u16 and i16 arguments: the ends of the range, the values around zero, and the
\* values the tests and the spec's examples use.
U16Inputs == (0..Near) \cup ((U16Max - Near)..U16Max) \cup {9, 10, 23}
I16Inputs == (I16Min..(I16Min + Near)) \cup ((0 - Near)..Near)
             \cup ((I16Max - Near)..I16Max) \cup {-23, -5, 5, 23}

Codes ==
    {EscapeCode(n) : n \in EscapeCodeNames}
    \cup {CursorUp(n) : n \in U16Inputs} \cup {CursorDown(n) : n \in U16Inputs}
    \cup {CursorForward(n) : n \in U16Inputs} \cup {CursorBackward(n) : n \in U16Inputs}
    \cup {CursorTo_TopLeft} \cup {CursorTo_AbsoluteX(x) : x \in U16Inputs}
    \cup {CursorTo_AbsoluteXY(x, y) : x \in U16Inputs, y \in U16Inputs}
    \cup {CursorMove_X(x) : x \in I16Inputs} \cup {CursorMove_Y(y) : y \in I16Inputs}
    \cup {CursorMove_XY(x, y) : x \in I16Inputs, y \in I16Inputs}
    \cup {EraseLines(n) : n \in 0..MaxLines}

\* The values rendered side by side in the concurrent specification.
ConcCodes ==
    {CursorTo_AbsoluteX(U16Max), EraseLines(2)}

(***************************************************************************)
(* Formatting.                                                             *)
(***************************************************************************)
Digits == <<"0", "1", "2", "3", "4", "5", "6", "7", "8", "9">>

RECURSIVE DecNat(_)
DecNat(n) == IF n < 10 THEN <<Digits[n + 1]>>
             ELSE DecNat(n \div 10) \o <<Digits[(n % 10) + 1]>>

\* "{}" on an integer: its decimal digits, a minus sign first when negative.
Dec(n) == IF n < 0 THEN <<"-">> \o DecNat(0 - n) ELSE DecNat(n)

CSI == <<"ESC", "[">>

\* x + 1 on u16: [ok |-> FALSE] is the overflow panic of a build with overflow
\* checks; a build without them wraps.
AddU16(x, y) ==
    IF x + y <= U16Max THEN [ok |-> TRUE, val |-> x + y]
    ELSE IF overflowChecks THEN [ok |-> FALSE, val |-> 0]
    ELSE [ok |-> TRUE, val |-> (x + y) % (U16Max + 1)]

\* -x on i16, likewise.
NegI16(x) ==
    IF 0 - x <= I16Max THEN [ok |-> TRUE, val |-> 0 - x]
    ELSE IF overflowChecks THEN [ok |-> FALSE, val |-> 0]
    ELSE [ok |-> TRUE, val |-> (((0 - x) - I16Min) % (U16Max + 1)) + I16Min]

EscapeCodeValue_Swapped(name) ==
    CASE name = "CursorLeft" -> CSI \o <<"1", "0", "0", "0", "D">>
      [] name = "CursorSavePosition" -> CSI \o <<"s">>
      [] name = "CursorRestorePosition" -> CSI \o <<"u">>
      [] name = "CursorGetPosition" -> CSI \o <<"6", "n">>
      [] name = "CursorNextLine" -> CSI \o <<"E">>
      [] name = "CursorPrevLine" -> CSI \o <<"F">>
      [] name = "CursorHide" -> CSI \o <<"?", "2", "5", "h">>
      [] name = "CursorShow" -> CSI \o <<"?", "2", "5", "l">>
      [] name = "EraseEndLine" -> CSI \o <<"K">>
      [] name = "EraseStartLine" -> CSI \o <<"1", "K">>
      [] name = "EraseLine" -> CSI \o <<"2", "K">>
      [] name = "EraseDown" -> CSI \o <<"J">>
      [] name = "EraseUp" -> CSI \o <<"1", "J">>
      [] name = "EraseScreen" -> CSI \o <<"2", "J">>
      [] name = "ScrollUp" -> CSI \o <<"S">>
      [] name = "ScrollDown" -> CSI \o <<"T">>
      [] name = "ClearScreen" -> <<"ESC", "c">>
      [] name = "EnterAlternativeScreen" -> CSI \o <<"?", "1", "0", "4", "9", "h">>
      [] name = "ExitAlternativeScreen" -> CSI \o <<"?", "1", "0", "4", "9", "l">>
      [] name = "Beep" -> <<"BEL">>

\* The $value of each escape_code! invocation.
EscapeCodeValue(name) ==
    CASE name = "CursorLeft" -> CSI \o <<"1", "0", "0", "0", "D">>
      [] name = "CursorSavePosition" -> CSI \o <<"s">>
      [] name = "CursorRestorePosition" -> CSI \o <<"u">>
      [] name = "CursorGetPosition" -> CSI \o <<"6", "n">>
      [] name = "CursorNextLine" -> CSI \o <<"E">>
      [] name = "CursorPrevLine" -> CSI \o <<"F">>
      [] name = "CursorHide" -> CSI \o <<"?", "2", "5", "l">>
      [] name = "CursorShow" -> CSI \o <<"?", "2", "5", "h">>
      [] name = "EraseEndLine" -> CSI \o <<"K">>
      [] name = "EraseStartLine" -> CSI \o <<"1", "K">>
      [] name = "EraseLine" -> CSI \o <<"2", "K">>
      [] name = "EraseDown" -> CSI \o <<"J">>
      [] name = "EraseUp" -> CSI \o <<"1", "J">>
      [] name = "EraseScreen" -> CSI \o <<"2", "J">>
      [] name = "ScrollUp" -> CSI \o <<"S">>
      [] name = "ScrollDown" -> CSI \o <<"T">>
      [] name = "ClearScreen" -> <<"ESC", "c">>
      [] name = "EnterAlternativeScreen" -> CSI \o <<"?", "1", "0", "4", "9", "h">>
      [] name = "ExitAlternativeScreen" -> CSI \o <<"?", "1", "0", "4", "9", "l">>
      [] name = "Beep" -> <<"BEL">>

(***************************************************************************)
(* One render, as steps on its local state                                 *)
(* s = [stack, pending, sink, ret, result, writes, rejected].              *)
(***************************************************************************)
Frame(c) == [self |-> c, pc |-> "fmt", idx |-> 0]

InitLocal(c) ==
    [stack |-> <<Frame(c)>>, pending |-> <<>>, sink |-> <<>>, ret |-> "Ok",
     result |-> "Running", writes |-> 0, rejected |-> FALSE]

Top(s) == s.stack[Len(s.stack)]

Goto(s, pc) == [s EXCEPT !.stack[Len(s.stack)].pc = pc]

\* fmt returns r: to its caller's frame, or to the caller of the render.
Return(s, r) ==
    IF Len(s.stack) = 1
    THEN [s EXCEPT !.stack = <<>>, !.pending = <<>>, !.result = r]
    ELSE [s EXCEPT !.stack = SubSeq(s.stack, 1, Len(s.stack) - 1), !.pending = <<>>,
                   !.ret = r]

\* An overflow panic unwinds the whole render, and only the render (the thread)
\* it happens in.
Panic(s) == [s EXCEPT !.stack = <<>>, !.pending = <<>>, !.result = "Panic"]

\* callee.fmt(f), the caller resuming at retpc.
Call(s, callee, retpc) == [Goto(s, retpc) EXCEPT !.stack = Append(@, Frame(callee))]

\* write!(f, ...) as the value of fmt: the pieces go to the sink one by one.
WriteFmt(s, pieces) ==
    IF pieces = <<>> THEN Return(s, "Ok") ELSE [Goto(s, "write") EXCEPT !.pending = pieces]

\* The sink is handed the next piece; a rejected piece ends the write! with Err.
WriteStr(s, accept) ==
    IF accept
    THEN LET s1 == [s EXCEPT !.sink = @ \o Head(s.pending), !.writes = @ + 1,
                             !.pending = Tail(@)]
         IN IF s1.pending = <<>> THEN Return(s1, "Ok") ELSE s1
    ELSE Return([s EXCEPT !.writes = @ + 1, !.rejected = TRUE], "Err")

\* The ? operator on the callee's result.
Try(s, next) == IF s.ret = "Err" THEN Return(s, "Err") ELSE next

EscapeCode_fmt(s) == WriteFmt(s, <<EscapeCodeValue(Top(s).self.kind)>>)

CursorUp_fmt(s) == WriteFmt(s, <<CSI, Dec(Top(s).self.a), <<"A">>>>)

CursorDown_fmt(s) == WriteFmt(s, <<CSI, Dec(Top(s).self.a), <<"B">>>>)

CursorForward_fmt(s) == WriteFmt(s, <<CSI, Dec(Top(s).self.a), <<"C">>>>)

CursorBackward_fmt_Forward(s) == WriteFmt(s, <<CSI, Dec(Top(s).self.a), <<"C">>>>)

CursorBackward_fmt(s) == WriteFmt(s, <<CSI, Dec(Top(s).self.a), <<"D">>>>)

CursorTo_fmt(s) ==
    LET c == Top(s).self IN
    CASE c.kind = "CursorTo::TopLeft" ->
            WriteFmt(s, <<CSI, Dec(1), <<";">>, Dec(1), <<"H">>>>)
      [] c.kind = "CursorTo::AbsoluteX" ->
            LET x1 == AddU16(c.a, 1) IN
            IF ~x1.ok THEN Panic(s) ELSE WriteFmt(s, <<CSI, Dec(x1.val), <<"G">>>>)
      [] c.kind = "CursorTo::AbsoluteXY" ->
            LET y1 == AddU16(c.b, 1)
                x1 == AddU16(c.a, 1)
            IN IF ~y1.ok \/ ~x1.ok THEN Panic(s)
               ELSE WriteFmt(s, <<CSI, Dec(y1.val), <<";">>, Dec(x1.val), <<"H">>>>)

CursorMove_fmt_YFirst(s) ==
    LET c == Top(s).self IN
    CASE c.kind = "CursorMove::X" /\ c.a > 0 -> WriteFmt(s, <<CSI, Dec(c.a), <<"C">>>>)
      [] c.kind = "CursorMove::X" /\ c.a < 0 ->
            LET n == NegI16(c.a) IN
            IF ~n.ok THEN Panic(s) ELSE WriteFmt(s, <<CSI, Dec(n.val), <<"D">>>>)
      [] c.kind = "CursorMove::X" /\ c.a = 0 -> Return(s, "Ok")
      [] c.kind = "CursorMove::XY" -> Call(s, CursorMove_Y(c.b), "xy_x")
      [] c.kind = "CursorMove::Y" /\ c.a > 0 -> WriteFmt(s, <<CSI, Dec(c.a), <<"B">>>>)
      [] c.kind = "CursorMove::Y" /\ c.a < 0 ->
            LET n == NegI16(c.a) IN
            IF ~n.ok THEN Panic(s) ELSE WriteFmt(s, <<CSI, Dec(n.val), <<"A">>>>)
      [] c.kind = "CursorMove::Y" /\ c.a = 0 -> Return(s, "Ok")

\* The match of CursorMove::fmt; the XY arm starts with CursorMove::X(x).fmt(f).
CursorMove_fmt(s) ==
    LET c == Top(s).self IN
    CASE c.kind = "CursorMove::X" /\ c.a > 0 -> WriteFmt(s, <<CSI, Dec(c.a), <<"C">>>>)
      [] c.kind = "CursorMove::X" /\ c.a < 0 ->
            LET n == NegI16(c.a) IN
            IF ~n.ok THEN Panic(s) ELSE WriteFmt(s, <<CSI, Dec(n.val), <<"D">>>>)
      [] c.kind = "CursorMove::X" /\ c.a = 0 -> Return(s, "Ok")
      [] c.kind = "CursorMove::XY" -> Call(s, CursorMove_X(c.a), "xy_x")
      [] c.kind = "CursorMove::Y" /\ c.a > 0 -> WriteFmt(s, <<CSI, Dec(c.a), <<"B">>>>)
      [] c.kind = "CursorMove::Y" /\ c.a < 0 ->
            LET n == NegI16(c.a) IN
            IF ~n.ok THEN Panic(s) ELSE WriteFmt(s, <<CSI, Dec(n.val), <<"A">>>>)
      [] c.kind = "CursorMove::Y" /\ c.a = 0 -> Return(s, "Ok")

\* The rest of the XY arm: ? on the X part, CursorMove::Y(y).fmt(f), ? on it, Ok(()).
CursorMove_resume(s) ==
    LET f == Top(s) IN
    CASE f.pc = "xy_x" -> Try(s, Call(s, CursorMove_Y(f.self.b), "xy_y"))
      [] f.pc = "xy_y" -> Try(s, Return(s, "Ok"))

EraseLines_fmt_UpFirst(s) ==
    LET f == Top(s) IN
    IF f.idx < f.self.a
    THEN IF f.idx >= 0 THEN Call(s, CursorUp(1), "el_up")
         ELSE Call(s, EscapeCode("CursorLeft"), "el_left")
    ELSE Return(s, "Ok")

\* The head of the loop of EraseLines::fmt, for idx in 0..self.0, up to its first
\* write!.
EraseLines_fmt(s) ==
    LET f == Top(s) IN
    IF f.idx < f.self.a
    THEN IF f.idx > 0 THEN Call(s, CursorUp(1), "el_up")
         ELSE Call(s, EscapeCode("CursorLeft"), "el_left")
    ELSE Return(s, "Ok")

EraseLines_resume_NoErase(s) ==
    LET f == Top(s) IN
    CASE f.pc = "el_up" -> Try(s, Call(s, EscapeCode("CursorLeft"), "el_left"))
      [] f.pc = "el_left" -> Try(s, Call(s, EscapeCode("CursorLeft"), "el_erase"))
      [] f.pc = "el_erase" ->
            Try(s, [s EXCEPT !.stack[Len(s.stack)] = [f EXCEPT !.pc = "fmt", !.idx = @ + 1]])

\* The rest of the loop body: ? on each write!, the next write!, the next idx.
EraseLines_resume(s) ==
    LET f == Top(s) IN
    CASE f.pc = "el_up" -> Try(s, Call(s, EscapeCode("CursorLeft"), "el_left"))
      [] f.pc = "el_left" -> Try(s, Call(s, EscapeCode("EraseEndLine"), "el_erase"))
      [] f.pc = "el_erase" ->
            Try(s, [s EXCEPT !.stack[Len(s.stack)] = [f EXCEPT !.pc = "fmt", !.idx = @ + 1]])

\* The step a render takes next, the sink accepting or rejecting.
Step(s, accept) ==
    LET f == Top(s)
        k == f.self.kind
    IN CASE f.pc = "write" -> WriteStr(s, accept)
         [] f.pc \in {"xy_x", "xy_y"} -> CursorMove_resume(s)
         [] f.pc \in {"el_up", "el_left", "el_erase"} -> EraseLines_resume(s)
         [] f.pc = "fmt" /\ k \in EscapeCodeNames -> EscapeCode_fmt(s)
         [] f.pc = "fmt" /\ k = "CursorUp" -> CursorUp_fmt(s)
         [] f.pc = "fmt" /\ k = "CursorDown" -> CursorDown_fmt(s)
         [] f.pc = "fmt" /\ k = "CursorForward" -> CursorForward_fmt(s)
         [] f.pc = "fmt" /\ k = "CursorBackward" -> CursorBackward_fmt(s)
         [] f.pc = "fmt" /\ k \in CursorToKinds -> CursorTo_fmt(s)
         [] f.pc = "fmt" /\ k \in CursorMoveKinds -> CursorMove_fmt(s)
         [] f.pc = "fmt" /\ k = "EraseLines" -> EraseLines_fmt(s)

\* The render of c run to its end on its own, into a sink that accepts every write.
RECURSIVE Run(_)
Run(s) == IF s.stack = <<>> THEN s ELSE Run(Step(s, TRUE))

Alone(c) == Run(InitLocal(c))

(***************************************************************************)
(* The state machine: each thread renders its own value into its own sink. *)
(***************************************************************************)
Threads == DOMAIN code

Local(t) ==
    [stack |-> stack[t], pending |-> pending[t], sink |-> sink[t], ret |-> ret[t],
     result |-> result[t], writes |-> writes[t], rejected |-> rejected[t]]

Deliver_SharedBuffer(t, s) ==
    /\ stack' = [stack EXCEPT ![t] = s.stack]
    /\ pending' = [pending EXCEPT ![t] = s.pending]
    /\ sink' = [u \in DOMAIN sink |-> s.sink]
    /\ ret' = [ret EXCEPT ![t] = s.ret]
    /\ result' = [result EXCEPT ![t] = s.result]
    /\ writes' = [writes EXCEPT ![t] = s.writes]
    /\ rejected' = [rejected EXCEPT ![t] = s.rejected]
    /\ UNCHANGED <<overflowChecks, code, outputs>>

\* A step of fmt(&self, f) touches the frames of its own call and the Formatter f it
\* was given, and nothing else.
Deliver(t, s) ==
    /\ stack' = [stack EXCEPT ![t] = s.stack]
    /\ pending' = [pending EXCEPT ![t] = s.pending]
    /\ sink' = [sink EXCEPT ![t] = s.sink]
    /\ ret' = [ret EXCEPT ![t] = s.ret]
    /\ result' = [result EXCEPT ![t] = s.result]
    /\ writes' = [writes EXCEPT ![t] = s.writes]
    /\ rejected' = [rejected EXCEPT ![t] = s.rejected]
    /\ UNCHANGED <<overflowChecks, code, outputs>>

At(t, pcs) == t \in Threads /\ result[t] = "Running" /\ Top(Local(t)).pc \in pcs

AtFmt(t, kinds) == At(t, {"fmt"}) /\ Top(Local(t)).self.kind \in kinds

InitOver(T, C) ==
    /\ overflowChecks \in BOOLEAN
    /\ code \in [T -> C]
    /\ stack = [t \in T |-> InitLocal(code[t]).stack]
    /\ pending = [t \in T |-> <<>>]
    /\ sink = [t \in T |-> <<>>]
    /\ ret = [t \in T |-> "Ok"]
    /\ result = [t \in T |-> "Running"]
    /\ writes = [t \in T |-> 0]
    /\ rejected = [t \in T |-> FALSE]
    /\ outputs = [t \in T |-> <<>>]

\* One caller, any value.
Init == InitOver({1}, Codes)

\* Several threads, each with a value of its own.
InitConc == InitOver(1..NumThreads, ConcCodes)

EscapeCodeFmt(t) == AtFmt(t, EscapeCodeNames) /\ Deliver(t, EscapeCode_fmt(Local(t)))

CursorUpFmt(t) == AtFmt(t, {"CursorUp"}) /\ Deliver(t, CursorUp_fmt(Local(t)))

CursorDownFmt(t) == AtFmt(t, {"CursorDown"}) /\ Deliver(t, CursorDown_fmt(Local(t)))

CursorForwardFmt(t) == AtFmt(t, {"CursorForward"}) /\ Deliver(t, CursorForward_fmt(Local(t)))

CursorBackwardFmt(t) == AtFmt(t, {"CursorBackward"}) /\ Deliver(t, CursorBackward_fmt(Local(t)))

CursorToFmt(t) == AtFmt(t, CursorToKinds) /\ Deliver(t, CursorTo_fmt(Local(t)))

CursorMoveFmt(t) == AtFmt(t, CursorMoveKinds) /\ Deliver(t, CursorMove_fmt(Local(t)))

CursorMoveResume(t) == At(t, {"xy_x", "xy_y"}) /\ Deliver(t, CursorMove_resume(Local(t)))

EraseLinesFmt(t) == AtFmt(t, {"EraseLines"}) /\ Deliver(t, EraseLines_fmt(Local(t)))

EraseLinesResume(t) ==
    At(t, {"el_up", "el_left", "el_erase"}) /\ Deliver(t, EraseLines_resume(Local(t)))

\* The Formatter hands the sink one piece, which the sink accepts or rejects.
SinkWrite(t) ==
    /\ At(t, {"write"})
    /\ \E accept \in BOOLEAN : Deliver(t, WriteStr(Local(t), accept))

\* The caller renders the same value once more, into a fresh sink.
RenderAgain(t) ==
    /\ t \in Threads
    /\ result[t] = "Ok"
    /\ Len(outputs[t]) + 1 < MaxRenders
    /\ outputs' = [outputs EXCEPT ![t] = Append(@, sink[t])]
    /\ stack' = [stack EXCEPT ![t] = InitLocal(code[t]).stack]
    /\ pending' = [pending EXCEPT ![t] = <<>>]
    /\ sink' = [sink EXCEPT ![t] = <<>>]
    /\ ret' = [ret EXCEPT ![t] = "Ok"]
    /\ result' = [result EXCEPT ![t] = "Running"]
    /\ writes' = [writes EXCEPT ![t] = 0]
    /\ UNCHANGED <<overflowChecks, code, rejected>>

Next ==
    \E t \in 1..NumThreads :
        \/ EscapeCodeFmt(t)
        \/ CursorUpFmt(t)
        \/ CursorDownFmt(t)
        \/ CursorForwardFmt(t)
        \/ CursorBackwardFmt(t)
        \/ CursorToFmt(t)
        \/ CursorMoveFmt(t)
        \/ CursorMoveResume(t)
        \/ EraseLinesFmt(t)
        \/ EraseLinesResume(t)
        \/ SinkWrite(t)
        \/ RenderAgain(t)

Spec == Init /\ [][Next]_vars

\* Concurrent renders: every thread renders its value once.
NextConc ==
    \E t \in 1..NumThreads :
        \/ EscapeCodeFmt(t)
        \/ CursorUpFmt(t)
        \/ CursorToFmt(t)
        \/ EraseLinesFmt(t)
        \/ EraseLinesResume(t)
        \/ SinkWrite(t)

SpecConc == InitConc /\ [][NextConc]_vars

(***************************************************************************)
(* What the properties below speak of.                                     *)
(***************************************************************************)
Finished(t) == result[t] # "Running"

\* Every output of a completed render of code[t].
AllOutputs(t) ==
    {outputs[t][i] : i \in 1..Len(outputs[t])}
    \cup (IF result[t] = "Ok" THEN {sink[t]} ELSE {})

IsPrefix(p, q) == Len(p) <= Len(q) /\ SubSeq(q, 1, Len(p)) = p

TypeOK ==
    /\ overflowChecks \in BOOLEAN
    /\ \A t \in Threads :
        /\ result[t] \in {"Running", "Ok", "Err", "Panic"}
        /\ (result[t] = "Running") = (stack[t] # <<>>)
        /\ Len(outputs[t]) < MaxRenders

(***************************************************************************)
(* Reading rendered bytes back.                                            *)
(***************************************************************************)
IsDigit(c) == \E d \in 1..10 : Digits[d] = c

DigitValue(c) == (CHOOSE d \in 1..10 : Digits[d] = c) - 1

RECURSIVE ValueOf(_)
ValueOf(ds) ==
    IF ds = <<>> THEN 0
    ELSE 10 * ValueOf(SubSeq(ds, 1, Len(ds) - 1)) + DigitValue(ds[Len(ds)])

\* ds is n in plain decimal: digits only, at least one, no leading zero.
PlainDecimal(ds, n) ==
    /\ Len(ds) >= 1
    /\ \A i \in 1..Len(ds) : IsDigit(ds[i])
    /\ (Len(ds) > 1 => ds[1] # "0")
    /\ ValueOf(ds) = n

\* The places where p occurs in o.
Occurrences(p, o) ==
    Cardinality({i \in 1..Len(o) :
                    i + Len(p) - 1 <= Len(o) /\ SubSeq(o, i, i + Len(p) - 1) = p})

\* A render never panics, and returns Ok when its sink accepted every write.
Succeeds(t) ==
    /\ result[t] # "Panic"
    /\ (Finished(t) /\ ~rejected[t] => result[t] = "Ok")

(***************************************************************************)
(* C1: EraseLines(N) renders N blocks ESC[1000D ESC[K with one ESC[1A       *)
(* between consecutive blocks.                                             *)
(***************************************************************************)
C1_Block == <<"ESC", "[", "1", "0", "0", "0", "D", "ESC", "[", "K">>

C1_Up == <<"ESC", "[", "1", "A">>

RECURSIVE C1_Blocks(_)
C1_Blocks(n) ==
    IF n = 0 THEN <<>>
    ELSE IF n = 1 THEN C1_Block
    ELSE C1_Blocks(n - 1) \o C1_Up \o C1_Block

\* C1: every render of EraseLines(N) succeeds, and its output is exactly N blocks
\* (CursorLeft then EraseEndLine) with one CursorUp(1) between consecutive blocks:
\* N blocks and, for N >= 1, N - 1 up-moves; nothing for N = 0.
C1_EraseLinesBlocks ==
    \A t \in Threads :
        code[t].kind = "EraseLines" =>
            /\ Succeeds(t)
            /\ \A o \in AllOutputs(t) :
                /\ o = C1_Blocks(code[t].a)
                /\ Occurrences(C1_Block, o) = code[t].a
                /\ Occurrences(C1_Up, o) = IF code[t].a = 0 THEN 0 ELSE code[t].a - 1

C1_Witness ==
    \E t \in Threads :
        /\ code[t].kind = "EraseLines" /\ code[t].a >= 3
        /\ result[t] = "Ok" /\ Occurrences(C1_Up, sink[t]) = 2

(***************************************************************************)
(* C2, C3, C4: the parameters of CursorTo and CursorMove.                  *)
(***************************************************************************)
\* C2: every parameter value of the 16-bit range is accepted and rendered with no
\* failure; at the ends of the range, AbsoluteX(65535) and AbsoluteXY(65535, 65535)
\* render the parameter 65536 and X(-32768), Y(-32768) render the parameter 32768.
C2_FullRangeRendered ==
    \A t \in Threads :
        /\ Succeeds(t)
        /\ \A o \in AllOutputs(t) :
            /\ code[t] = CursorTo_AbsoluteX(U16Max) =>
                    o = <<"ESC", "[", "6", "5", "5", "3", "6", "G">>
            /\ code[t] = CursorTo_AbsoluteXY(U16Max, U16Max) =>
                    o = <<"ESC", "[", "6", "5", "5", "3", "6", ";",
                          "6", "5", "5", "3", "6", "H">>
            /\ code[t] = CursorMove_X(I16Min) =>
                    o = <<"ESC", "[", "3", "2", "7", "6", "8", "D">>
            /\ code[t] = CursorMove_Y(I16Min) =>
                    o = <<"ESC", "[", "3", "2", "7", "6", "8", "A">>

\* C3: CursorTo renders 1-based parameters, the row before the column: TopLeft is
\* ESC[1;1H, AbsoluteX(x) is ESC[{x+1}G, AbsoluteXY(x, y) is ESC[{y+1};{x+1}H, for
\* every u16 x and y.
C3_CursorToOneBased ==
    \A t \in Threads :
        code[t].kind \in CursorToKinds =>
            /\ Succeeds(t)
            /\ \A o \in AllOutputs(t) :
                /\ code[t].kind = "CursorTo::TopLeft" =>
                        o = <<"ESC", "[", "1", ";", "1", "H">>
                /\ code[t].kind = "CursorTo::AbsoluteX" =>
                        /\ Len(o) >= 4 /\ SubSeq(o, 1, 2) = <<"ESC", "[">>
                        /\ o[Len(o)] = "G"
                        /\ PlainDecimal(SubSeq(o, 3, Len(o) - 1), code[t].a + 1)
                /\ code[t].kind = "CursorTo::AbsoluteXY" =>
                        \E k \in 4..(Len(o) - 2) :
                            /\ SubSeq(o, 1, 2) = <<"ESC", "[">>
                            /\ PlainDecimal(SubSeq(o, 3, k - 1), code[t].b + 1)
                            /\ o[k] = ";"
                            /\ PlainDecimal(SubSeq(o, k + 1, Len(o) - 1), code[t].a + 1)
                            /\ o[Len(o)] = "H"

\* C4: CursorMove::X(d) renders ESC[{d}C for d > 0, ESC[{-d}D for d < 0 and nothing
\* for d = 0; CursorMove::Y(d) likewise with B and A; the parameter is the positive
\* magnitude of d, for every i16 d.
C4_CursorMoveBySign ==
    \A t \in Threads :
        code[t].kind \in {"CursorMove::X", "CursorMove::Y"} =>
            /\ Succeeds(t)
            /\ \A o \in AllOutputs(t) :
                LET d == code[t].a
                    isX == code[t].kind = "CursorMove::X"
                IN IF d = 0 THEN o = <<>>
                   ELSE /\ Len(o) >= 4 /\ SubSeq(o, 1, 2) = <<"ESC", "[">>
                        /\ PlainDecimal(SubSeq(o, 3, Len(o) - 1), IF d > 0 THEN d ELSE 0 - d)
                        /\ o[Len(o)] = IF isX THEN (IF d > 0 THEN "C" ELSE "D")
                                       ELSE (IF d > 0 THEN "B" ELSE "A")

(***************************************************************************)
(* C5: CursorMove::XY(x, y) is X(x) then Y(y).                             *)
(***************************************************************************)
Outcome(s) == [sink |-> s.sink, result |-> s.result]

\* Render a, then, if it returned Ok, render b into the same sink.
Sequel(a, b) ==
    IF a.result # "Ok" THEN a ELSE [sink |-> a.sink \o b.sink, result |-> b.result]

\* C5: a render of CursorMove::XY(x, y) into an accepting sink ends as the render of
\* CursorMove::X(x) followed by the render of CursorMove::Y(y) does: the bytes of
\* X(x), then those of Y(y), no separator, the same result; so XY(0, 0) renders
\* nothing, XY(x, 0) what X(x) renders and XY(0, y) what Y(y) renders.
C5_XYIsXThenY ==
    \A t \in Threads :
        code[t].kind = "CursorMove::XY" =>
            LET x == Outcome(Alone(CursorMove_X(code[t].a)))
                y == Outcome(Alone(CursorMove_Y(code[t].b)))
            IN /\ Finished(t) /\ ~rejected[t] => Outcome(Local(t)) = Sequel(x, y)
               /\ \A o \in AllOutputs(t) :
                    /\ o = x.sink \o y.sink
                    /\ (code[t].a = 0 /\ code[t].b = 0 => o = <<>>)
                    /\ (code[t].b = 0 => o = x.sink)
                    /\ (code[t].a = 0 => o = y.sink)

C5_Witness ==
    \E t \in Threads :
        /\ code[t] = CursorMove_XY(5, -23)
        /\ result[t] = "Ok"
        /\ sink[t] = <<"ESC", "[", "5", "C", "ESC", "[", "2", "3", "A">>

(***************************************************************************)
(* C6: the directional movers.                                             *)
(***************************************************************************)
C6_Letter(kind) ==
    CASE kind = "CursorUp" -> "A"
      [] kind = "CursorDown" -> "B"
      [] kind = "CursorForward" -> "C"
      [] kind = "CursorBackward" -> "D"

\* C6: CursorUp(n), CursorDown(n), CursorForward(n), CursorBackward(n) render
\* ESC[{n}A, ESC[{n}B, ESC[{n}C, ESC[{n}D for every u16 n, n in plain decimal (no
\* padding, sign or leading zero), n = 0 as the parameter 0.
C6_DirectionalMovers ==
    \A t \in Threads :
        code[t].kind \in {"CursorUp", "CursorDown", "CursorForward", "CursorBackward"} =>
            /\ Succeeds(t)
            /\ \A o \in AllOutputs(t) :
                /\ Len(o) >= 4 /\ SubSeq(o, 1, 2) = <<"ESC", "[">>
                /\ PlainDecimal(SubSeq(o, 3, Len(o) - 1), code[t].a)
                /\ o[Len(o)] = C6_Letter(code[t].kind)
                /\ (code[t].a = 0 => SubSeq(o, 3, Len(o) - 1) = <<"0">>)

C6_Witness ==
    \E t \in Threads :
        /\ code[t] = CursorBackward(0)
        /\ result[t] = "Ok"
        /\ sink[t] = <<"ESC", "[", "0", "D">>

(***************************************************************************)
(* C7: the parameterless codes.                                            *)
(***************************************************************************)
\* The table of the specification, section 4.1.
C7_Table(name) ==
    CASE name = "CursorLeft" -> <<"ESC", "[", "1", "0", "0", "0", "D">>
      [] name = "CursorSavePosition" -> <<"ESC", "[", "s">>
      [] name = "CursorRestorePosition" -> <<"ESC", "[", "u">>
      [] name = "CursorGetPosition" -> <<"ESC", "[", "6", "n">>
      [] name = "CursorNextLine" -> <<"ESC", "[", "E">>
      [] name = "CursorPrevLine" -> <<"ESC", "[", "F">>
      [] name = "CursorHide" -> <<"ESC", "[", "?", "2", "5", "l">>
      [] name = "CursorShow" -> <<"ESC", "[", "?", "2", "5", "h">>
      [] name = "EraseEndLine" -> <<"ESC", "[", "K">>
      [] name = "EraseStartLine" -> <<"ESC", "[", "1", "K">>
      [] name = "EraseLine" -> <<"ESC", "[", "2", "K">>
      [] name = "EraseDown" -> <<"ESC", "[", "J">>
      [] name = "EraseUp" -> <<"ESC", "[", "1", "J">>
      [] name = "EraseScreen" -> <<"ESC", "[", "2", "J">>
      [] name = "ScrollUp" -> <<"ESC", "[", "S">>
      [] name = "ScrollDown" -> <<"ESC", "[", "T">>
      [] name = "ClearScreen" -> <<"ESC", "c">>
      [] name = "EnterAlternativeScreen" -> <<"ESC", "[", "?", "1", "0", "4", "9", "h">>
      [] name = "ExitAlternativeScreen" -> <<"ESC", "[", "?", "1", "0", "4", "9", "l">>
      [] name = "Beep" -> <<"BEL">>

\* C7: each of the 20 parameterless codes renders exactly the bytes the table gives
\* for it, on the first render and on every later one.
C7_FixedCodes ==
    \A t \in Threads :
        code[t].kind \in EscapeCodeNames =>
            /\ Succeeds(t)
            /\ \A o \in AllOutputs(t) : o = C7_Table(code[t].kind)

C7_Witness ==
    \E t \in Threads :
        /\ code[t] = EscapeCode("CursorShow")
        /\ Len(outputs[t]) >= 1
        /\ result[t] = "Ok"
        /\ sink[t] = outputs[t][1]

(***************************************************************************)
(* C8: a rejected write.                                                   *)
(***************************************************************************)
\* C8: a render whose sink rejected a write returns that failure, and a render
\* whose sink accepted every write returns Ok.
C8_SinkFailureSurfaced ==
    \A t \in Threads :
        /\ (Finished(t) /\ rejected[t] => result[t] = "Err")
        /\ (Finished(t) /\ ~rejected[t] => result[t] = "Ok")

\* The part of C8 about the writes: once the sink has rejected a write, the render
\* attempts no other write and ends with Err.
C8_NoWriteAfterRejection ==
    [][\A t \in Threads :
          rejected[t] =>
              /\ writes'[t] = writes[t]
              /\ sink'[t] = sink[t]
              /\ result'[t] \in {"Running", "Err"}]_vars

(***************************************************************************)
(* C9: renders running side by side.                                       *)
(***************************************************************************)
\* C9: under every interleaving of the threads' writes, each thread's sink holds a
\* prefix of what the same render writes when run alone, and once the render has
\* ended (its sink having accepted every write) holds exactly that, with the same
\* result.
C9_IsolatedRenders ==
    \A t \in Threads :
        LET a == Alone(code[t])
        IN /\ IsPrefix(sink[t], a.sink)
           /\ (Finished(t) /\ ~rejected[t] => Outcome(Local(t)) = Outcome(a))

C9_Witness ==
    \E t \in Threads, u \in Threads :
        /\ t # u
        /\ code[t] = EraseLines(2) /\ code[u] = EraseLines(2)
        /\ result[t] = "Ok" /\ sink[t] # <<>>
        /\ result[u] = "Ok" /\ sink[u] = sink[t]

(***************************************************************************)
(* C10: what a terminal makes of EraseLines(N).  The terminal is the one   *)
(* the claim describes: rows 0..TermRows-1 from the top, columns           *)
(* 0..TermCols-1 from the left, every line full at the start; ink[r] is    *)
(* the number of leading cells of row r that are not blank.                *)
(***************************************************************************)
TermCols == CursorLeftReach + ExtraCols

TermRowSet == 0..(TermRows - 1)

StartCols == {0, 1, CursorLeftReach, CursorLeftReach + 1, TermCols - 1}

Term(r, c) == [row |-> r, col |-> c, ink |-> [x \in TermRowSet |-> TermCols]]

Max(a, b) == IF a >= b THEN a ELSE b

Min(a, b) == IF a <= b THEN a ELSE b

RECURSIVE DigitRun(_)
DigitRun(bs) ==
    IF bs # <<>> /\ IsDigit(Head(bs)) THEN <<Head(bs)>> \o DigitRun(Tail(bs)) ELSE <<>>

\* ESC[nD: left by n, stopping at the left edge; ESC[nA: up by n, stopping at the
\* top row; ESC[K: blank from the cursor to the end of the line.
TermApply(tm, ds, final) ==
    LET n == IF ds = <<>> THEN 1 ELSE ValueOf(ds)
    IN CASE final = "D" -> [tm EXCEPT !.col = Max(0, @ - n)]
         [] final = "A" -> [tm EXCEPT !.row = Max(0, @ - n)]
         [] final = "K" /\ ds = <<>> -> [tm EXCEPT !.ink[tm.row] = Min(@, tm.col)]
         [] OTHER -> tm

\* The terminal reads the bytes one control sequence after the other.
RECURSIVE Interpret(_, _)
Interpret(bs, tm) ==
    IF Len(bs) < 3 \/ SubSeq(bs, 1, 2) # <<"ESC", "[">> THEN tm
    ELSE LET ds == DigitRun(SubSeq(bs, 3, Len(bs)))
         IN IF 3 + Len(ds) > Len(bs) THEN tm
            ELSE Interpret(SubSeq(bs, 4 + Len(ds), Len(bs)),
                           TermApply(tm, ds, bs[3 + Len(ds)]))

\* From the cursor at (r0, c0), the output o of EraseLines(n) leaves the starting
\* line and the lines above it, n lines in all, blank, and the cursor at the first
\* column of the topmost of them.
ErasedFrom(o, n, r0, c0) ==
    LET f == Interpret(o, Term(r0, c0))
    IN /\ f.row = r0 - n + 1
       /\ f.col = 0
       /\ \A r \in (r0 - n + 1)..r0 : r \in TermRowSet /\ f.ink[r] = 0

====
